---- MODULE Spec2Model ----
(***************************************************************************)
(* A model of the AI-content detection pipeline of python/ai_detector.py:  *)
(* the process-wide model cache (_MODEL_CACHE, get_cached_model,           *)
(* get_cached_classifier), the two model-backed detectors, the ensemble    *)
(* (detect_ai_content_advanced) and the entry point                        *)
(* (analyze_ai_likelihood).                                                *)
(*                                                                         *)
(* Strings are modelled as sequences of tokens (words and punctuation), so *)
(* that concatenation (f"classifier:{model_name}") and substring search    *)
(* ('roberta' in model.lower()) are computed, not assumed.                 *)
(* Percentages are integers in hundredths of a percent (68.00% = 6800);    *)
(* confidences are integers in hundredths (0.92 = 92).                     *)
(***************************************************************************)
EXTENDS Integers, Sequences, FiniteSets, TLC

VARIABLES
    MODEL_CACHE,   \* _MODEL_CACHE: a dict, modelled as a function key -> handle
    loads,         \* load-counter stub: key -> number of handles loaded for it
    nextId,        \* identity of the next handle object to be constructed
    call,          \* per thread: the get_cached_* call it is in (or its last one)
    last,          \* per key: how the most recently completed call for it ended
    ncalls,        \* number of direct cache calls begun so far (bounded)
    apc,           \* where the main thread is in analyze_ai_likelihood
    text,          \* its argument
    env,           \* os.environ.get('ALLOW_ADVANCED') and whether transformers imports
    heuristic_result,   \* line 582
    task,          \* per detector task: position, chunk scores so far, outcome
    yielded,       \* the futures as_completed has yielded, in order
    roberta_result,     \* line 451 / 465
    binoculars_result,  \* line 452 / 469
    advanced_result,    \* what detect_ai_content_advanced returned
    final,         \* what analyze_ai_likelihood returned
    stdout,        \* what the process has written to sys.stdout, in order
    preload,       \* where the main thread is in preload_models, and its outcome
    chunking,      \* one call of chunk_text: its arguments, loop index and chunks
    stats          \* the chunk scores of one detector call and the results built from them

\* the state of a call of chunk_text and of an aggregation of chunk scores on their own
unitVars == <<chunking, stats>>

\* the state of one analysis and of the process around it
analysisVars ==
    <<apc, text, env, heuristic_result, task, yielded, roberta_result,
      binoculars_result, advanced_result, final, stdout, preload>>

\* all the state the cache functions leave alone
runVars == <<analysisVars, unitVars>>

vars == <<MODEL_CACHE, loads, nextId, call, last, ncalls, runVars>>

-----------------------------------------------------------------------------
(* Bounds *)

\* number of threads calling the cache functions directly
NCallers == 2

\* the number of times preload_models is called in a behaviour
MaxPreloads == 2

\* the largest number of words of a text given to chunk_text
MaxWords == 1200

\* the largest number of chunks whose scores are aggregated on their own
MaxChunks == 3

\* total number of direct cache calls in a behaviour
MaxCalls == 2

-----------------------------------------------------------------------------
(* Strings *)

\* "gpt2" (model_a)
Gpt2 == <<"gpt2">>

\* "EleutherAI/gpt-neo-125M" (model_b)
GptNeo == <<"EleutherAI", "/", "gpt", "-", "neo", "-", "125M">>

\* "Hello-SimpleAI/chatgpt-detector-roberta"
RobertaName == <<"Hello", "-", "SimpleAI", "/", "chatgpt", "-", "detector", "-", "roberta">>

\* the literal prefix of f"classifier:{model_name}"
ClassifierPrefix == <<"classifier", ":">>

\* str.lower() of one token
LowerTok(w) ==
    CASE w = "EleutherAI" -> "eleutherai"
      [] w = "125M" -> "125m"
      [] w = "Hello" -> "hello"
      [] w = "SimpleAI" -> "simpleai"
      [] OTHER -> w

\* str.lower()
Lower(s) == [i \in 1..Len(s) |-> LowerTok(s[i])]

\* `sub in s` for strings
Contains(s, sub) ==
    \E i \in 0..(Len(s) - Len(sub)) :
        \A j \in 1..Len(sub) : s[i + j] = sub[j]

-----------------------------------------------------------------------------
(* The model cache *)

\* threads are named <<role, index>>
Callers == {<<"caller", i>> : i \in 1..NCallers}
RobertaTask == <<"roberta", 0>>
BinocularsTask == <<"binoculars", 0>>
Tasks == {RobertaTask, BinocularsTask}
\* the main thread while it runs preload_models
PreloadThread == <<"preload", 0>>
Threads == Callers \cup Tasks \cup {PreloadThread}

\* the model names direct callers pass
CallNames == {Gpt2, ClassifierPrefix \o Gpt2}

CausalLM == "AutoModelForCausalLM"
SeqClassifier == "AutoModelForSequenceClassification"

\* the class whose from_pretrained each function calls
LoaderOf(fn) == IF fn = "get_cached_classifier" THEN SeqClassifier ELSE CausalLM

CacheFns == {"get_cached_model", "get_cached_classifier"}

NoHandle == [loader |-> "none", name |-> <<>>, id |-> 0]

\* cache_key = f"classifier:{model_name}" without the prefix: both functions on one key
CacheKeyNoPrefix(fn, model_name) == model_name

\* the key each function looks up and stores under
CacheKey(fn, model_name) ==
    IF fn = "get_cached_classifier" THEN ClassifierPrefix \o model_name ELSE model_name

\* a thread that is in no call and has made none
NoCall ==
    [pc |-> "idle", fn |-> "none", name |-> <<>>, key |-> <<>>, local |-> NoHandle,
     ret |-> NoHandle, loaded |-> FALSE, before |-> <<>>, prev |-> "none",
     prevRet |-> NoHandle]

\* _MODEL_CACHE[key] = handle
Put(cache, key, h) ==
    [k \in (DOMAIN cache) \cup {key} |-> IF k = key THEN h ELSE cache[k]]

\* for key: the outcome of the latest completed call ("none" if there was none) and
\* the handle the first successful call returned
LastOf(key) == IF key \in DOMAIN last THEN last[key] ELSE [outcome |-> "none", ret |-> NoHandle]

\* entry of get_cached_model / get_cached_classifier: the arguments are bound and
\* the key is computed
Enter(t, fn, model_name) ==
    /\ call' = [call EXCEPT ![t] =
                  [pc |-> "check", fn |-> fn, name |-> model_name,
                   key |-> CacheKey(fn, model_name), local |-> NoHandle,
                   ret |-> NoHandle, loaded |-> FALSE, before |-> MODEL_CACHE,
                   prev |-> LastOf(CacheKey(fn, model_name)).outcome,
                   prevRet |-> LastOf(CacheKey(fn, model_name)).ret]]

\* a direct caller begins a call while other callers may be inside theirs
Begin(t) ==
    /\ call[t].pc \in {"idle", "done", "raised"}
    /\ ncalls < MaxCalls
    /\ \E fn \in CacheFns, n \in CallNames : Enter(t, fn, n)
    /\ ncalls' = ncalls + 1
    /\ UNCHANGED <<MODEL_CACHE, loads, nextId, last, runVars>>

\* a direct caller begins a call when no other call is in progress
BeginSeq(t) ==
    /\ \A u \in Callers : call[u].pc \in {"idle", "done", "raised"}
    /\ Begin(t)

\* the branch taken on a miss: the load is attempted
MissBranch(t) == call' = [call EXCEPT ![t].pc = "load", ![t].loaded = TRUE]

\* `if key not in _MODEL_CACHE:`
Check(t) ==
    /\ call[t].pc = "check"
    /\ IF call[t].key \notin DOMAIN MODEL_CACHE
         THEN MissBranch(t)
         ELSE call' = [call EXCEPT ![t].pc = "ret"]
    /\ UNCHANGED <<MODEL_CACHE, loads, nextId, last, ncalls, runVars>>

\* from_pretrained of tokenizer and model, eval(), to(device): a new handle
LoadOk(t) ==
    /\ call[t].pc = "load"
    /\ call' = [call EXCEPT ![t].pc = "store",
                            ![t].local = [loader |-> LoaderOf(call[t].fn),
                                          name |-> call[t].name, id |-> nextId]]
    /\ nextId' = nextId + 1
    /\ loads' = [k \in (DOMAIN loads) \cup {call[t].key} |->
                    IF k = call[t].key
                      THEN (IF k \in DOMAIN loads THEN loads[k] ELSE 0) + 1
                      ELSE loads[k]]
    /\ UNCHANGED <<MODEL_CACHE, last, ncalls, runVars>>

\* a failed load that leaves a placeholder behind
CacheAfterFailurePoisoned(t) == Put(MODEL_CACHE, call[t].key, NoHandle)

\* what is left in the cache when the load raises
CacheAfterFailure(t) == MODEL_CACHE

\* the load raises: `except Exception as e: raise RuntimeError(...)`
LoadFail(t) ==
    /\ call[t].pc = "load"
    /\ call' = [call EXCEPT ![t].pc = "raised"]
    /\ MODEL_CACHE' = CacheAfterFailure(t)
    /\ last' = Put(last, call[t].key,
                    [outcome |-> "raised", ret |-> LastOf(call[t].key).ret])
    /\ UNCHANGED <<loads, nextId, ncalls, runVars>>

\* `_MODEL_CACHE[key] = (tokenizer, model, device)`
Store(t) ==
    /\ call[t].pc = "store"
    /\ MODEL_CACHE' = Put(MODEL_CACHE, call[t].key, call[t].local)
    /\ call' = [call EXCEPT ![t].pc = "ret"]
    /\ UNCHANGED <<loads, nextId, last, ncalls, runVars>>

\* returning the handle this call built, or none on a hit
ReturnedLocal(t) == call[t].local

\* the value of `return _MODEL_CACHE[key]`
Returned(t) == MODEL_CACHE[call[t].key]

\* `return _MODEL_CACHE[key]`
Return(t) ==
    /\ call[t].pc = "ret"
    /\ call' = [call EXCEPT ![t].pc = "done", ![t].ret = Returned(t)]
    /\ last' = Put(last, call[t].key,
                    [outcome |-> "returned",
                     ret |-> IF LastOf(call[t].key).ret # NoHandle
                               THEN LastOf(call[t].key).ret
                               ELSE Returned(t)])
    /\ UNCHANGED <<MODEL_CACHE, loads, nextId, ncalls, runVars>>

-----------------------------------------------------------------------------
(* Values *)

\* Python's None
None == [isNone |-> TRUE]

\* truth value of a dict or None (the dicts built here are never empty)
Truthy(x) == x # None

\* the nearest integer to a / b, ties to the even one (Python's round), a >= 0, b > 0
RoundDiv(a, b) ==
    LET q == a \div b
        r == a % b
    IN  IF 2 * r < b THEN q
        ELSE IF 2 * r > b THEN q + 1
        ELSE IF q % 2 = 0 THEN q ELSE q + 1

RECURSIVE SumSeq(_)
\* sum(xs)
SumSeq(xs) == IF xs = <<>> THEN 0 ELSE Head(xs) + SumSeq(Tail(xs))

\* sum(x * x for x in xs)
SumSq(xs) == SumSeq([i \in 1..Len(xs) |-> xs[i] * xs[i]])

\* min(xs), max(xs)
MinSeq(xs) == CHOOSE x \in {xs[i] : i \in 1..Len(xs)} : \A j \in 1..Len(xs) : x <= xs[j]
MaxSeq(xs) == CHOOSE x \in {xs[i] : i \in 1..Len(xs)} : \A j \in 1..Len(xs) : x >= xs[j]

\* [x for x in xs if x > 0]
RECURSIVE NonZero(_)
NonZero(xs) ==
    IF xs = <<>> THEN <<>>
    ELSE IF Head(xs) > 0 THEN <<Head(xs)>> \o NonZero(Tail(xs))
    ELSE NonZero(Tail(xs))

-----------------------------------------------------------------------------
(* Texts *)

(* A text is given by what the pipeline reads of it:                        *)
(*   chars        len(text.strip())                                         *)
(*   words        len(text.split())                                         *)
(*   sentences    the word count of each piece of text.split('.')           *)
(*   starts       the number of distinct lower-cased first words of the     *)
(*                non-blank pieces                                          *)
(*   pronouns     the number of words that are personal pronouns            *)
(*   transitions  the number of words that are transitional phrases         *)
(*   contractions whether the text holds one of the contraction suffixes    *)

\* the empty text (also what a missing text is read as)
TextEmpty ==
    [chars |-> 0, words |-> 0, sentences |-> <<0>>, starts |-> 0,
     pronouns |-> 0, transitions |-> 0, contractions |-> FALSE]

\* a text below the length gate
TextShort ==
    [chars |-> 20, words |-> 4, sentences |-> <<4>>, starts |-> 1,
     pronouns |-> 0, transitions |-> 0, contractions |-> FALSE]

\* three sentences of different lengths, in the first person
TextPlain ==
    [chars |-> 131, words |-> 63, sentences |-> <<8, 30, 22, 0>>, starts |-> 3,
     pronouns |-> 3, transitions |-> 0, contractions |-> TRUE]

\* one sentence followed by an ellipsis: a single non-blank piece among four
TextEllipsis ==
    [chars |-> 77, words |-> 14, sentences |-> <<14, 0, 0, 0>>, starts |-> 1,
     pronouns |-> 0, transitions |-> 0, contractions |-> FALSE]

\* a long uniform text: more than 400 words
TextLong ==
    [chars |-> 1050, words |-> 501,
     sentences |-> <<100, 100, 100, 100, 101, 0>>, starts |-> 2,
     pronouns |-> 0, transitions |-> 3, contractions |-> FALSE]

Texts == {TextEmpty, TextShort, TextPlain, TextEllipsis, TextLong}

\* the values of the ALLOW_ADVANCED environment variable
AllowValues == {"unset", "1", "0", "true"}

\* the chunk scores an inference may produce, in hundredths of a percent
ChunkScores == {1234, 5000, 8000}

-----------------------------------------------------------------------------
(* detect_ai_content_simple *)

\* statistics.stdev raises StatisticsError on fewer than two data points
HeuristicFaults(t) ==
    /\ Len(t.sentences) > 3
    /\ Len(NonZero(t.sentences)) = 1

\* cv < 0.3, with cv = stdev(lengths) / mean(lengths) (sample standard deviation)
LowVariance(lengths) ==
    LET n == Len(lengths)
        S == SumSeq(lengths)
        Q == SumSq(lengths)
    IN  100 * n * (n * Q - S * S) < 9 * (n - 1) * S * S

\* the five checks, each with its points and its indicator
HeuristicChecks(t) ==
    LET lengths == NonZero(t.sentences)
        nstarts == Len(lengths)
    IN  << [hit |-> Len(t.sentences) > 3 /\ lengths # <<>> /\ LowVariance(lengths),
            points |-> 30, indicator |-> <<"Low sentence length variance">>],
           [hit |-> nstarts > 0 /\ 2 * t.starts < nstarts,
            points |-> 25, indicator |-> <<"Repetitive sentence starters">>],
           [hit |-> t.words = 0 \/ 100 * t.pronouns < t.words,
            points |-> 20, indicator |-> <<"Lack of personal pronouns">>],
           [hit |-> 50 * t.transitions > t.words,
            points |-> 15, indicator |-> <<"High transitional phrase density">>],
           [hit |-> ~t.contractions /\ t.words > 50,
            points |-> 10, indicator |-> <<"Lack of contractions">>] >>

RECURSIVE HitsOf(_)
\* the checks that fired, in order
HitsOf(cs) ==
    IF cs = <<>> THEN <<>>
    ELSE IF Head(cs).hit THEN <<Head(cs)>> \o HitsOf(Tail(cs))
    ELSE HitsOf(Tail(cs))

\* the dict of the try branch (lines 190-196)
HeuristicResult(t) ==
    LET hits == HitsOf(HeuristicChecks(t))
        score == SumSeq([i \in 1..Len(hits) |-> hits[i].points])
    IN  [ai_likelihood |-> 100 * (IF score < 100 THEN score ELSE 100),
         confidence |-> 70,
         indicators |-> [i \in 1..Len(hits) |-> hits[i].indicator],
         model |-> <<"statistical_heuristics">>,
         note |-> <<"Using simplified detection. Install transformers for better accuracy.">>]

\* the dict of the except branch (lines 199-205)
HeuristicErrorResult ==
    [ai_likelihood |-> 5000,
     confidence |-> 30,
     indicators |-> << <<"Error during analysis">> >>,
     model |-> <<"fallback">>,
     note |-> <<"stdev requires at least two data points">>]

\* a heuristic whose fault propagates as a model-grade result
detect_ai_content_simple_overconfident(t) ==
    IF HeuristicFaults(t)
      THEN [HeuristicErrorResult EXCEPT !.confidence = 92]
      ELSE [HeuristicResult(t) EXCEPT !.confidence = 92]

\* a heuristic whose substitute is a score of 0 with no indicator
detect_ai_content_simple_silent(t) ==
    IF HeuristicFaults(t)
      THEN [HeuristicErrorResult EXCEPT !.ai_likelihood = 0, !.indicators = <<>>]
      ELSE HeuristicResult(t)

\* lines 132-205: the dict returned by the try branch or by the except branch
detect_ai_content_simple(t) ==
    IF HeuristicFaults(t) THEN HeuristicErrorResult ELSE HeuristicResult(t)

\* a line written by print(...) without file=: it goes to sys.stdout
StdoutLine(toks) == [kind |-> "line", body |-> toks]

\* what one call of detect_ai_content_simple writes to sys.stdout: nothing, or in the
\* except branch `print(f"Error in AI detection: {e}")` (line 198)
detect_ai_content_simple_stdout(t) ==
    IF HeuristicFaults(t)
      THEN << StdoutLine(<<"Error in AI detection", ":">> \o HeuristicErrorResult.note) >>
      ELSE <<>>

-----------------------------------------------------------------------------
(* chunk_text *)

RECURSIVE WindowsAbove50(_, _, _, _)
\* a loop that keeps a window only when it has more than 50 words
WindowsAbove50(i, nwords, chunk_size, overlap) ==
    IF i >= nwords THEN <<>>
    ELSE LET n == IF i + chunk_size <= nwords THEN chunk_size ELSE nwords - i
         IN  (IF n > 50 THEN <<[start |-> i, len |-> n, whole |-> FALSE]>> ELSE <<>>)
                 \o WindowsAbove50(i + (chunk_size - overlap), nwords, chunk_size, overlap)

RECURSIVE WindowsNoOverlap(_, _, _, _)
\* a loop that advances by chunk_size
WindowsNoOverlap(i, nwords, chunk_size, overlap) ==
    IF i >= nwords THEN <<>>
    ELSE LET n == IF i + chunk_size <= nwords THEN chunk_size ELSE nwords - i
         IN  (IF n >= 50 THEN <<[start |-> i, len |-> n, whole |-> FALSE]>> ELSE <<>>)
                 \o WindowsNoOverlap(i + chunk_size, nwords, chunk_size, overlap)

RECURSIVE WindowsAbove150(_, _, _, _)
\* a loop that keeps a window only when it has at least 150 words
WindowsAbove150(i, nwords, chunk_size, overlap) ==
    IF i >= nwords THEN <<>>
    ELSE LET n == IF i + chunk_size <= nwords THEN chunk_size ELSE nwords - i
         IN  (IF n >= 150 THEN <<[start |-> i, len |-> n, whole |-> FALSE]>> ELSE <<>>)
                 \o WindowsAbove150(i + (chunk_size - overlap), nwords, chunk_size, overlap)

RECURSIVE Windows(_, _, _, _)
\* the loop of lines 227-230 from index i on: the windows of at least 50 words
Windows(i, nwords, chunk_size, overlap) ==
    IF i >= nwords THEN <<>>
    ELSE LET n == IF i + chunk_size <= nwords THEN chunk_size ELSE nwords - i
         IN  (IF n >= 50 THEN <<[start |-> i, len |-> n, whole |-> FALSE]>> ELSE <<>>)
                 \o Windows(i + (chunk_size - overlap), nwords, chunk_size, overlap)

\* a chunker that rebuilds a short text from its words
chunk_text_rejoined(nwords, chunk_size, overlap) ==
    IF nwords <= chunk_size
      THEN <<[start |-> 0, len |-> nwords, whole |-> FALSE]>>
      ELSE Windows(0, nwords, chunk_size, overlap)

\* the chunks of a text of nwords words, each given by its first word and word count
\* (whole: the chunk is the text itself, not a ' '.join of words)
chunk_text(nwords, chunk_size, overlap) ==
    IF nwords <= chunk_size
      THEN <<[start |-> 0, len |-> nwords, whole |-> TRUE]>>
      ELSE Windows(0, nwords, chunk_size, overlap)

\* chunk_text has not been called
NoChunking ==
    [pc |-> "idle", nwords |-> 0, chunk_size |-> 400, overlap |-> 100, chunks |-> <<>>]

\* the window parameters chunk_text is called with: detect_roberta's (also the
\* defaults), detect_binoculars', and a smaller pair
ChunkConfigs ==
    { [chunk_size |-> 400, overlap |-> 100],
      [chunk_size |-> 700, overlap |-> 150],
      [chunk_size |-> 60, overlap |-> 10] }

\* chunk_text(text, chunk_size, overlap) on a text of n words (lines 208-232)
ChunkText ==
    /\ chunking.pc = "idle"
    /\ \E n \in 0..MaxWords, cfg \in ChunkConfigs :
         chunking' = [pc |-> "returned", nwords |-> n, chunk_size |-> cfg.chunk_size,
                      overlap |-> cfg.overlap,
                      chunks |-> chunk_text(n, cfg.chunk_size, cfg.overlap)]
    /\ UNCHANGED <<MODEL_CACHE, loads, nextId, call, last, ncalls, analysisVars, stats>>

\* no chunk score has been produced
NoStats == [pc |-> "scoring", scores |-> <<>>, roberta |-> None, binoculars |-> None]

-----------------------------------------------------------------------------
(* detect_roberta and detect_binoculars: the result built from the chunk scores.  *)
(* An indicator or note string is given by its label and the values it formats.   *)

\* n^2 times the population variance of the scores
VarianceN2(scores) == Len(scores) * SumSq(scores) - SumSeq(scores) * SumSeq(scores)

\* tiers whose upper bounds are inclusive
StdTierInclusive(scores) ==
    LET n == Len(scores)
    IN  IF VarianceN2(scores) <= 1000 * 1000 * n * n THEN 1
        ELSE IF VarianceN2(scores) <= 2000 * 2000 * n * n THEN 2
        ELSE 3

\* the tier of the standard deviation: 1 below 10, 2 below 20, 3 otherwise
StdTier(scores) ==
    LET n == Len(scores)
    IN  IF VarianceN2(scores) < 1000 * 1000 * n * n THEN 1
        ELSE IF VarianceN2(scores) < 2000 * 2000 * n * n THEN 2
        ELSE 3

\* an average that is not divided by the number of scores
AvgScoreTotal(scores) == SumSeq(scores)

\* round(avg_score, 2)
AvgScore(scores) == RoundDiv(SumSeq(scores), Len(scores))

RECURSIVE StdSearch(_, _, _, _)
\* the largest r in lo..hi with ((2r - 1) * n)^2 <= 4 * v, where it holds of lo
StdSearch(lo, hi, n, v) ==
    IF lo = hi THEN lo
    ELSE LET mid == (lo + hi + 1) \div 2
         IN  IF ((2 * mid - 1) * n) * ((2 * mid - 1) * n) <= 4 * v
               THEN StdSearch(mid, hi, n, v)
               ELSE StdSearch(lo, mid - 1, n, v)

\* round(std_score, 2), std_score = variance ** 0.5: the hundredth nearest to
\* sqrt(VarianceN2) / n (a standard deviation of scores in [0, 100] is at most 50)
StdDev(scores) ==
    LET n == Len(scores)
    IN  IF n * n > 4 * VarianceN2(scores) THEN 0
        ELSE StdSearch(1, 5000, n, VarianceN2(scores))

BinocularsName == <<"binoculars", ":">> \o Gpt2 \o <<"|">> \o GptNeo

\* the dict of lines 295-313
detect_roberta(chunks, scores) ==
    [ai_likelihood |-> AvgScore(scores),
     confidence |-> CASE StdTier(scores) = 1 -> 92
                      [] StdTier(scores) = 2 -> 85
                      [] OTHER -> 78,
     indicators |-> << <<"Average across chunks", Len(chunks), AvgScore(scores)>>,
                       <<"Score range", MinSeq(scores), MaxSeq(scores)>>,
                       <<"Standard deviation", StdDev(scores)>> >>,
     model |-> RobertaName,
     note |-> CASE StdTier(scores) = 1 -> <<"Consistent AI pattern", Len(chunks), StdDev(scores)>>
                [] StdTier(scores) = 2 -> <<"Moderate variance", Len(chunks), StdDev(scores)>>
                [] OTHER -> <<"Variable scores", MinSeq(scores), MaxSeq(scores)>>,
     chunk_analysis |->
         [num_chunks |-> Len(chunks),
          avg_score |-> AvgScore(scores),
          min_score |-> MinSeq(scores),
          max_score |-> MaxSeq(scores),
          std_dev |-> StdDev(scores),
          chunks |-> [i \in 1..Len(scores) |->
                         [chunk_id |-> i - 1, ai_likelihood |-> scores[i],
                          word_count |-> chunks[i].len]]]]

\* the dict of lines 402-421
detect_binoculars(chunks, scores) ==
    [ai_likelihood |-> AvgScore(scores),
     confidence |-> CASE StdTier(scores) = 1 -> 93
                      [] StdTier(scores) = 2 -> 87
                      [] OTHER -> 80,
     indicators |-> << <<"Average across chunks", Len(chunks), AvgScore(scores)>>,
                       <<"Avg perplexity ratio">>,
                       <<"Score range", MinSeq(scores), MaxSeq(scores)>>,
                       <<"Standard deviation", StdDev(scores)>> >>,
     model |-> BinocularsName,
     note |-> CASE StdTier(scores) = 1 -> <<"Consistent perplexity pattern", Len(chunks), StdDev(scores)>>
                [] StdTier(scores) = 2 -> <<"Moderate variance", Len(chunks), StdDev(scores)>>
                [] OTHER -> <<"Variable perplexity scores", MinSeq(scores), MaxSeq(scores)>>,
     chunk_analysis |->
         [num_chunks |-> Len(chunks),
          avg_score |-> AvgScore(scores),
          min_score |-> MinSeq(scores),
          max_score |-> MaxSeq(scores),
          std_dev |-> StdDev(scores),
          chunks |-> [i \in 1..Len(scores) |->
                         [chunk_id |-> i - 1, ai_likelihood |-> scores[i],
                          word_count |-> chunks[i].len]]]]

\* the chunk scores aggregated on their own, in hundredths of a percent: the ends of
\* the range and pairs whose standard deviation is at or next to a tier bound
StatScores == {0, 1998, 2000, 3998, 4000, 10000}

\* n full windows, as chunk_text(text, 400, 100) gives for a long text
FullChunks(n) == [k \in 1..n |-> [start |-> (k - 1) * 300, len |-> 400, whole |-> FALSE]]

\* one iteration of a detector's chunk loop (lines 256-270, 356-373): a chunk's score
\* is appended
StatsScore ==
    /\ stats.pc = "scoring"
    /\ Len(stats.scores) < MaxChunks
    /\ \E score \in StatScores :
         stats' = [stats EXCEPT !.scores = Append(@, score)]
    /\ UNCHANGED <<MODEL_CACHE, loads, nextId, call, last, ncalls, analysisVars, chunking>>

\* after the loop: the statistics and the result of each detector for these scores
\* (lines 272-313, 375-421)
StatsAggregate ==
    /\ stats.pc = "scoring"
    /\ Len(stats.scores) >= 1
    /\ stats' = [stats EXCEPT
                   !.pc = "done",
                   !.roberta = detect_roberta(FullChunks(Len(stats.scores)), stats.scores),
                   !.binoculars = detect_binoculars(FullChunks(Len(stats.scores)),
                                                    stats.scores)]
    /\ UNCHANGED <<MODEL_CACHE, loads, nextId, call, last, ncalls, analysisVars, chunking>>

-----------------------------------------------------------------------------
(* detect_ai_content_advanced *)

\* a task that has not been submitted
NoTask == [pc |-> "unsubmitted", i |-> 1, scores |-> <<>>, outcome |-> None]

\* chunk_text(text, chunk_size=400, overlap=100) and (700, 150)
RobertaChunks == chunk_text(text.words, 400, 100)
BinocularsChunks == chunk_text(text.words, 700, 150)

\* the slot a yielded result is attributed to by the order of completion
SlotOfByOrder(result, k) ==
    IF ~Truthy(result) THEN "none"
    ELSE IF k = 1 THEN "roberta"
    ELSE "binoculars"

\* the slot the k-th yielded result is attributed to (lines 464-471): by its model name
SlotOf(result, k) ==
    IF Truthy(result) /\ Contains(Lower(result.model), <<"roberta">>) THEN "roberta"
    ELSE IF Truthy(result) /\ Contains(Lower(result.model), <<"binoculars">>) THEN "binoculars"
    ELSE "none"

\* the combination with the weights exchanged
detect_ai_content_advanced_swapped(rr, br, t) ==
    IF Truthy(rr) /\ Truthy(br)
      THEN [ai_likelihood |-> RoundDiv(4 * rr.ai_likelihood + 6 * br.ai_likelihood, 10),
            confidence |-> 92,
            indicators |-> rr.indicators \o br.indicators,
            model |-> <<"combined", ":", "roberta", "+", "binoculars">>,
            note |-> <<"Combined RoBERTa (60%) and Binoculars (40%) detection">>,
            roberta_score |-> rr.ai_likelihood,
            binoculars_score |-> br.ai_likelihood,
            individual_results |-> [roberta |-> rr, binoculars |-> br]]
    ELSE IF Truthy(rr) THEN rr
    ELSE IF Truthy(br) THEN br
    ELSE detect_ai_content_simple(t)

\* a single result re-tagged instead of passed through
detect_ai_content_advanced_retagged(rr, br, t) ==
    IF Truthy(rr) /\ Truthy(br)
      THEN [ai_likelihood |-> RoundDiv(6 * rr.ai_likelihood + 4 * br.ai_likelihood, 10),
            confidence |-> 92,
            indicators |-> rr.indicators \o br.indicators,
            model |-> <<"combined", ":", "roberta", "+", "binoculars">>,
            note |-> <<"Combined RoBERTa (60%) and Binoculars (40%) detection">>,
            roberta_score |-> rr.ai_likelihood,
            binoculars_score |-> br.ai_likelihood,
            individual_results |-> [roberta |-> rr, binoculars |-> br]]
    ELSE IF Truthy(rr) THEN [rr EXCEPT !.confidence = 92]
    ELSE IF Truthy(br) THEN [br EXCEPT !.confidence = 92]
    ELSE detect_ai_content_simple(t)

\* a combination that adds the two scores instead of weighting them
detect_ai_content_advanced_unweighted(rr, br, t) ==
    IF Truthy(rr) /\ Truthy(br)
      THEN [ai_likelihood |-> rr.ai_likelihood + br.ai_likelihood,
            confidence |-> 92,
            indicators |-> rr.indicators \o br.indicators,
            model |-> <<"combined", ":", "roberta", "+", "binoculars">>,
            note |-> <<"Combined RoBERTa (60%) and Binoculars (40%) detection">>,
            roberta_score |-> rr.ai_likelihood,
            binoculars_score |-> br.ai_likelihood,
            individual_results |-> [roberta |-> rr, binoculars |-> br]]
    ELSE IF Truthy(rr) THEN rr
    ELSE IF Truthy(br) THEN br
    ELSE detect_ai_content_simple(t)

\* lines 478-511: what the ensemble returns for the two slots
detect_ai_content_advanced(rr, br, t) ==
    IF Truthy(rr) /\ Truthy(br)
      THEN [ai_likelihood |-> RoundDiv(6 * rr.ai_likelihood + 4 * br.ai_likelihood, 10),
            confidence |-> 92,
            indicators |-> rr.indicators \o br.indicators,
            model |-> <<"combined", ":", "roberta", "+", "binoculars">>,
            note |-> <<"Combined RoBERTa (60%) and Binoculars (40%) detection">>,
            roberta_score |-> rr.ai_likelihood,
            binoculars_score |-> br.ai_likelihood,
            individual_results |-> [roberta |-> rr, binoculars |-> br]]
    ELSE IF Truthy(rr) THEN rr
    ELSE IF Truthy(br) THEN br
    ELSE detect_ai_content_simple(t)

-----------------------------------------------------------------------------
(* analyze_ai_likelihood *)

\* what detect_ai_content_advanced writes to sys.stdout: what its call of the
\* heuristic writes when both detectors failed (line 511)
detect_ai_content_advanced_stdout(rr, br, t) ==
    IF ~Truthy(rr) /\ ~Truthy(br) THEN detect_ai_content_simple_stdout(t) ELSE <<>>


\* the result of the length gate (lines 566-571)
GateResult ==
    [error |-> <<"Text too short for AI detection">>,
     ai_likelihood |-> 5000,
     confidence |-> 0,
     indicators |-> <<>>]

\* a toggle that is on for every value but an unset variable
AllowAdvancedUnlessUnset(e) == e.allow # "unset"

\* os.environ.get('ALLOW_ADVANCED', '1') == '1'
AllowAdvanced(e) == e.allow \in {"unset", "1"}

\* a merge that does not pass the individual scores through
MergeWithoutScores(adv, heur, debug_info) ==
    IF Truthy(adv)
      THEN [ai_likelihood |-> adv.ai_likelihood,
            confidence |-> adv.confidence,
            indicators |-> adv.indicators,
            model |-> adv.model,
            note |-> adv.note,
            heuristic_score |-> heur.ai_likelihood,
            heuristic_indicators |-> heur.indicators,
            heuristic_model |-> heur.model,
            _debug |-> debug_info]
      ELSE [k \in (DOMAIN heur) \cup {"_debug"} |->
               IF k = "_debug" THEN debug_info ELSE heur[k]]

\* a merge that reports the heuristic's score and indicators as the primary ones
MergeHeuristicFirst(adv, heur, debug_info) ==
    IF Truthy(adv)
      THEN [ai_likelihood |-> heur.ai_likelihood,
            confidence |-> adv.confidence,
            indicators |-> heur.indicators,
            model |-> adv.model,
            note |-> adv.note,
            heuristic_score |-> adv.ai_likelihood,
            heuristic_indicators |-> adv.indicators,
            heuristic_model |-> heur.model,
            _debug |-> debug_info]
      ELSE [k \in (DOMAIN heur) \cup {"_debug"} |->
               IF k = "_debug" THEN debug_info ELSE heur[k]]

\* lines 622-648: the payload for the advanced result kept (or None) and the heuristic
Merge(adv, heur, debug_info) ==
    IF Truthy(adv)
      THEN LET base == [ai_likelihood |-> adv.ai_likelihood,
                        confidence |-> adv.confidence,
                        indicators |-> adv.indicators,
                        model |-> adv.model,
                        note |-> adv.note,
                        heuristic_score |-> heur.ai_likelihood,
                        heuristic_indicators |-> heur.indicators,
                        heuristic_model |-> heur.model,
                        _debug |-> debug_info]
           IN  IF "roberta_score" \in DOMAIN adv
                 THEN [k \in (DOMAIN base) \cup
                                {"roberta_score", "binoculars_score", "individual_results"} |->
                          IF k \in DOMAIN base THEN base[k] ELSE adv[k]]
                 ELSE base
      ELSE [k \in (DOMAIN heur) \cup {"_debug"} |->
               IF k = "_debug" THEN debug_info ELSE heur[k]]

\* lines 595-603 and 622-648: the payload when detect_ai_content_advanced returned adv
AfterAdvanced(adv, heur) ==
    IF adv.model = <<"statistical_heuristics">>
      THEN Merge(None, heur,
                 [allow_advanced |-> TRUE, advanced_result_model |-> adv.model,
                  why_failed |-> <<"advanced_detection_returned_heuristics">>])
      ELSE Merge(adv, heur,
                 [allow_advanced |-> TRUE, advanced_result_model |-> adv.model,
                  advanced_success |-> TRUE])

\* the payload when the advanced path is not entered: disabled, or transformers missing
WithoutAdvanced(e, heur) ==
    IF ~AllowAdvanced(e)
      THEN Merge(None, heur, [allow_advanced |-> FALSE, why_failed |-> <<"ALLOW_ADVANCED=0">>])
      ELSE Merge(None, heur, [allow_advanced |-> TRUE, why_failed |-> <<"ImportError">>])

\* a gate that lets every non-empty text through
TooShortOnlyEmpty(t) == t.chars = 0

\* preload_models has not been called. cache0 and loads0 are the cache and the load
\* counters when the current call of preload_models began; warm, cache1 and loads1
\* record that a call has returned True and what the cache and the counters were then
NoPreload ==
    [pc |-> "idle", step |-> 1, ret |-> "none", runs |-> 0,
     cache0 |-> <<>>, loads0 |-> <<>>, warm |-> FALSE, cache1 |-> <<>>, loads1 |-> <<>>]

\* `not text or len(text.strip()) < 50`
TooShort(t) == t.chars < 50

RunInit ==
    /\ apc = "none"
    /\ text = TextShort
    /\ env = [allow |-> "unset", transformers |-> TRUE]
    /\ heuristic_result = None
    /\ task = [d \in Tasks |-> NoTask]
    /\ yielded = <<>>
    /\ roberta_result = None
    /\ binoculars_result = None
    /\ advanced_result = None
    /\ final = None
    /\ stdout = <<>>
    /\ preload = NoPreload

\* analyze_ai_likelihood(txt) up to its return or, on the advanced path, up to the
\* submission of the two detector tasks (lines 565-594, 445-457)
Analyze ==
    /\ apc = "none"
    /\ preload.pc # "running"
    /\ \E txt \in Texts, a \in AllowValues, tr \in BOOLEAN :
         LET e == [allow |-> a, transformers |-> tr]
         IN  /\ text' = txt
             /\ env' = e
             /\ IF TooShort(txt)
                  THEN /\ final' = GateResult
                       /\ apc' = "returned"
                       /\ UNCHANGED <<heuristic_result, task, stdout>>
                  ELSE /\ heuristic_result' = detect_ai_content_simple(txt)
                       /\ stdout' = stdout \o detect_ai_content_simple_stdout(txt)
                       /\ IF AllowAdvanced(e) /\ tr
                            THEN /\ apc' = "wait"
                                 /\ task' = [d \in Tasks |->
                                               [NoTask EXCEPT !.pc =
                                                   IF d = RobertaTask THEN "call" ELSE "call_a"]]
                                 /\ UNCHANGED final
                            ELSE /\ final' = WithoutAdvanced(e, detect_ai_content_simple(txt))
                                 /\ apc' = "returned"
                                 /\ UNCHANGED task
    /\ UNCHANGED <<yielded, roberta_result, binoculars_result, advanced_result>>
    /\ UNCHANGED <<MODEL_CACHE, loads, nextId, call, last, ncalls, preload, unitVars>>

\* a detector's `except Exception: return None`, or its return of a result
Settle(d, result) ==
    task' = [task EXCEPT ![d].pc = "settled", ![d].outcome = result]

\* detect_roberta, line 249: get_cached_classifier(model_name) is called
RobertaCall ==
    /\ task[RobertaTask].pc = "call"
    /\ Enter(RobertaTask, "get_cached_classifier", RobertaName)
    /\ task' = [task EXCEPT ![RobertaTask].pc = "loading"]
    /\ UNCHANGED <<MODEL_CACHE, loads, nextId, last, ncalls, stdout, preload, unitVars>>
    /\ UNCHANGED <<apc, text, env, heuristic_result, yielded, roberta_result,
                   binoculars_result, advanced_result, final>>

\* detect_roberta, lines 256-270: one chunk is tokenized and classified
RobertaInfer ==
    /\ task[RobertaTask].pc = "loading"
    /\ call[RobertaTask].pc = "done"
    /\ task[RobertaTask].i <= Len(RobertaChunks)
    /\ \E score \in ChunkScores :
         task' = [task EXCEPT ![RobertaTask].scores = Append(@, score),
                              ![RobertaTask].i = @ + 1]
    /\ UNCHANGED <<MODEL_CACHE, loads, nextId, call, last, ncalls, stdout, preload, unitVars>>
    /\ UNCHANGED <<apc, text, env, heuristic_result, yielded, roberta_result,
                   binoculars_result, advanced_result, final>>

\* detect_roberta, lines 272-313: the statistics and the result
RobertaFinish ==
    /\ task[RobertaTask].pc = "loading"
    /\ call[RobertaTask].pc = "done"
    /\ task[RobertaTask].i > Len(RobertaChunks)
    /\ Settle(RobertaTask, detect_roberta(RobertaChunks, task[RobertaTask].scores))
    /\ UNCHANGED <<MODEL_CACHE, loads, nextId, call, last, ncalls, stdout, preload, unitVars>>
    /\ UNCHANGED <<apc, text, env, heuristic_result, yielded, roberta_result,
                   binoculars_result, advanced_result, final>>

\* a comparator whose model_b is the classifier's cache key: both tasks on one key
BinocularsCallSharedKey ==
    /\ task[BinocularsTask].pc \in {"call_a", "call_b"}
    /\ task[BinocularsTask].i <= Len(BinocularsChunks)
    /\ Enter(BinocularsTask, "get_cached_model",
             IF task[BinocularsTask].pc = "call_a" THEN Gpt2
                                                   ELSE ClassifierPrefix \o RobertaName)
    /\ task' = [task EXCEPT ![BinocularsTask].pc =
                   IF task[BinocularsTask].pc = "call_a" THEN "loss_a" ELSE "loss_b"]
    /\ UNCHANGED <<MODEL_CACHE, loads, nextId, last, ncalls, stdout, preload, unitVars>>
    /\ UNCHANGED <<apc, text, env, heuristic_result, yielded, roberta_result,
                   binoculars_result, advanced_result, final>>

\* detect_binoculars, compute_loss line 340: get_cached_model(model_name) is called
\* for model_a, then for model_b, on each chunk
BinocularsCall ==
    /\ task[BinocularsTask].pc \in {"call_a", "call_b"}
    /\ task[BinocularsTask].i <= Len(BinocularsChunks)
    /\ Enter(BinocularsTask, "get_cached_model",
             IF task[BinocularsTask].pc = "call_a" THEN Gpt2 ELSE GptNeo)
    /\ task' = [task EXCEPT ![BinocularsTask].pc =
                   IF task[BinocularsTask].pc = "call_a" THEN "loss_a" ELSE "loss_b"]
    /\ UNCHANGED <<MODEL_CACHE, loads, nextId, last, ncalls, stdout, preload, unitVars>>
    /\ UNCHANGED <<apc, text, env, heuristic_result, yielded, roberta_result,
                   binoculars_result, advanced_result, final>>

\* detect_binoculars, lines 341-373: the loss of one model on the chunk; after
\* model_b's, the chunk's score
BinocularsLoss ==
    /\ task[BinocularsTask].pc \in {"loss_a", "loss_b"}
    /\ call[BinocularsTask].pc = "done"
    /\ IF task[BinocularsTask].pc = "loss_a"
         THEN task' = [task EXCEPT ![BinocularsTask].pc = "call_b"]
         ELSE \E score \in ChunkScores :
                task' = [task EXCEPT ![BinocularsTask].pc = "call_a",
                                     ![BinocularsTask].scores = Append(@, score),
                                     ![BinocularsTask].i = @ + 1]
    /\ UNCHANGED <<MODEL_CACHE, loads, nextId, call, last, ncalls, stdout, preload, unitVars>>
    /\ UNCHANGED <<apc, text, env, heuristic_result, yielded, roberta_result,
                   binoculars_result, advanced_result, final>>

\* detect_binoculars, lines 375-421: the statistics and the result
BinocularsFinish ==
    /\ task[BinocularsTask].pc = "call_a"
    /\ task[BinocularsTask].i > Len(BinocularsChunks)
    /\ Settle(BinocularsTask, detect_binoculars(BinocularsChunks, task[BinocularsTask].scores))
    /\ UNCHANGED <<MODEL_CACHE, loads, nextId, call, last, ncalls, stdout, preload, unitVars>>
    /\ UNCHANGED <<apc, text, env, heuristic_result, yielded, roberta_result,
                   binoculars_result, advanced_result, final>>

\* the positions at which a detector is inside a cache call or right after it
InCall(d) == task[d].pc \in {"loading", "loss_a", "loss_b"}

\* a detector without its except: the task never settles after a failed load
TaskLoadFailedHangs(d) ==
    /\ InCall(d)
    /\ call[d].pc = "raised"
    /\ UNCHANGED vars

\* the cache call raised RuntimeError: the detector's except returns None
TaskLoadFailed(d) ==
    /\ InCall(d)
    /\ call[d].pc = "raised"
    /\ Settle(d, None)
    /\ UNCHANGED <<MODEL_CACHE, loads, nextId, call, last, ncalls, stdout, preload, unitVars>>
    /\ UNCHANGED <<apc, text, env, heuristic_result, yielded, roberta_result,
                   binoculars_result, advanced_result, final>>

\* a detector that answers a fault on a later chunk with the statistics of the chunks
\* scored so far
TaskFaultPartial(d) ==
    /\ InCall(d)
    /\ call[d].pc = "done"
    /\ task[d].i <= Len(IF d = RobertaTask THEN RobertaChunks ELSE BinocularsChunks)
    /\ Settle(d, IF task[d].scores = <<>> THEN None
                 ELSE IF d = RobertaTask
                   THEN detect_roberta(SubSeq(RobertaChunks, 1, Len(task[d].scores)),
                                       task[d].scores)
                   ELSE detect_binoculars(SubSeq(BinocularsChunks, 1, Len(task[d].scores)),
                                          task[d].scores))
    /\ UNCHANGED <<MODEL_CACHE, loads, nextId, call, last, ncalls, stdout, preload, unitVars>>
    /\ UNCHANGED <<apc, text, env, heuristic_result, yielded, roberta_result,
                   binoculars_result, advanced_result, final>>

\* tokenization or inference on the current chunk raised: the detector's except
\* returns None
TaskFault(d) ==
    /\ InCall(d)
    /\ call[d].pc = "done"
    /\ task[d].i <= Len(IF d = RobertaTask THEN RobertaChunks ELSE BinocularsChunks)
    /\ Settle(d, None)
    /\ UNCHANGED <<MODEL_CACHE, loads, nextId, call, last, ncalls, stdout, preload, unitVars>>
    /\ UNCHANGED <<apc, text, env, heuristic_result, yielded, roberta_result,
                   binoculars_result, advanced_result, final>>

\* the loop of line 460 has run out prematurely: after the first future
LoopDoneAfterFirst == Len(yielded) >= 1

\* the loop of line 460 has run out: as_completed has yielded both futures
LoopDone == Len(yielded) = Cardinality(Tasks)

\* one iteration of `for future in as_completed(...)`: a settled future that was not
\* yielded yet is yielded and its result attributed (lines 460-473)
Collect(d) ==
    /\ apc = "wait"
    /\ ~LoopDone
    /\ task[d].pc = "settled"
    /\ \A k \in 1..Len(yielded) : yielded[k] # d
    /\ yielded' = Append(yielded, d)
    /\ LET result == task[d].outcome
           slot == SlotOf(result, Len(yielded) + 1)
       IN  /\ roberta_result' = IF slot = "roberta" THEN result ELSE roberta_result
           /\ binoculars_result' = IF slot = "binoculars" THEN result ELSE binoculars_result
    /\ UNCHANGED <<MODEL_CACHE, loads, nextId, call, last, ncalls, stdout, preload, unitVars>>
    /\ UNCHANGED <<apc, text, env, heuristic_result, task, advanced_result, final>>

\* after the loop: detect_ai_content_advanced returns (lines 478-511) and
\* analyze_ai_likelihood builds its payload from it (lines 595-648)
Decide ==
    /\ apc = "wait"
    /\ LoopDone
    /\ advanced_result' = detect_ai_content_advanced(roberta_result, binoculars_result, text)
    /\ final' = AfterAdvanced(detect_ai_content_advanced(roberta_result, binoculars_result, text),
                              heuristic_result)
    /\ stdout' = stdout \o detect_ai_content_advanced_stdout(roberta_result,
                                                             binoculars_result, text)
    /\ apc' = "returned"
    /\ UNCHANGED <<MODEL_CACHE, loads, nextId, call, last, ncalls, preload, unitVars>>
    /\ UNCHANGED <<text, env, heuristic_result, task, yielded, roberta_result,
                   binoculars_result>>

\* the object written by `print(json.dumps(result))`
StdoutJson(result) == [kind |-> "json", body |-> result]

\* the number of JSON objects on sys.stdout
JsonCount == Cardinality({k \in 1..Len(stdout) : stdout[k].kind = "json"})

\* __main__, line 664: the result of analyze_ai_likelihood is printed
MainPrint ==
    /\ apc = "returned"
    /\ JsonCount = 0
    /\ stdout' = Append(stdout, StdoutJson(final))
    /\ UNCHANGED <<MODEL_CACHE, loads, nextId, call, last, ncalls, preload, unitVars>>
    /\ UNCHANGED <<apc, text, env, heuristic_result, task, yielded, roberta_result,
                   binoculars_result, advanced_result, final>>

-----------------------------------------------------------------------------
(* preload_models *)

\* a warm-up that loads gpt2 through the classifier loader
PreloadCallsWrongLoader ==
    << [fn |-> "get_cached_classifier", name |-> RobertaName],
       [fn |-> "get_cached_classifier", name |-> Gpt2],
       [fn |-> "get_cached_model", name |-> GptNeo] >>

\* the three calls of lines 39-43, in order
PreloadCalls ==
    << [fn |-> "get_cached_classifier", name |-> RobertaName],
       [fn |-> "get_cached_model", name |-> Gpt2],
       [fn |-> "get_cached_model", name |-> GptNeo] >>

\* the cache key of the j-th call
PreloadKey(j) == CacheKey(PreloadCalls[j].fn, PreloadCalls[j].name)

\* the main thread may go on to the next statement of the try block after a call
\* that raised
PreloadMayCallAfterFailure == call[PreloadThread].pc \in {"idle", "done", "raised"}

\* the main thread is at a statement of the try block: before the first call, or
\* after a call that returned
PreloadMayCall == call[PreloadThread].pc \in {"idle", "done"}

\* preload_models() is called (line 26) while no analysis is running
PreloadStart ==
    /\ preload.pc \in {"idle", "returned"}
    /\ preload.runs < MaxPreloads
    /\ apc = "none"
    /\ preload' = [preload EXCEPT !.pc = "running", !.step = 1, !.ret = "none",
                                  !.runs = @ + 1, !.cache0 = MODEL_CACHE,
                                  !.loads0 = loads]
    /\ call' = [call EXCEPT ![PreloadThread] = NoCall]
    /\ UNCHANGED <<MODEL_CACHE, loads, nextId, last, ncalls, stdout, unitVars>>
    /\ UNCHANGED <<apc, text, env, heuristic_result, task, yielded, roberta_result,
                   binoculars_result, advanced_result, final>>

\* the next of the three calls is made (lines 39, 42, 43)
PreloadCall ==
    /\ preload.pc = "running"
    /\ preload.step <= Len(PreloadCalls)
    /\ PreloadMayCall
    /\ Enter(PreloadThread, PreloadCalls[preload.step].fn, PreloadCalls[preload.step].name)
    /\ preload' = [preload EXCEPT !.step = @ + 1]
    /\ UNCHANGED <<MODEL_CACHE, loads, nextId, last, ncalls, stdout, unitVars>>
    /\ UNCHANGED <<apc, text, env, heuristic_result, task, yielded, roberta_result,
                   binoculars_result, advanced_result, final>>

\* all three calls returned: `return True` (line 46)
PreloadReturnTrue ==
    /\ preload.pc = "running"
    /\ preload.step > Len(PreloadCalls)
    /\ call[PreloadThread].pc = "done"
    /\ preload' = [preload EXCEPT !.pc = "returned", !.ret = "True",
                                  !.warm = TRUE,
                                  !.cache1 = IF preload.warm THEN @ ELSE MODEL_CACHE,
                                  !.loads1 = IF preload.warm THEN @ ELSE loads]
    /\ UNCHANGED <<MODEL_CACHE, loads, nextId, call, last, ncalls, stdout, unitVars>>
    /\ UNCHANGED <<apc, text, env, heuristic_result, task, yielded, roberta_result,
                   binoculars_result, advanced_result, final>>

\* a call raised: `except Exception: ... return False` (lines 47-49)
PreloadReturnFalse ==
    /\ preload.pc = "running"
    /\ call[PreloadThread].pc = "raised"
    /\ preload' = [preload EXCEPT !.pc = "returned", !.ret = "False"]
    /\ UNCHANGED <<MODEL_CACHE, loads, nextId, call, last, ncalls, stdout, unitVars>>
    /\ UNCHANGED <<apc, text, env, heuristic_result, task, yielded, roberta_result,
                   binoculars_result, advanced_result, final>>

-----------------------------------------------------------------------------
(* Specifications *)

Init ==
    /\ MODEL_CACHE = <<>>
    /\ loads = <<>>
    /\ nextId = 1
    /\ call = [t \in Threads |-> NoCall]
    /\ last = <<>>
    /\ ncalls = 0
    /\ RunInit
    /\ chunking = NoChunking
    /\ stats = NoStats

\* direct callers of the cache, running concurrently
Next ==
    \E t \in Callers :
        \/ Begin(t)
        \/ Check(t)
        \/ LoadOk(t)
        \/ LoadFail(t)
        \/ Store(t)
        \/ Return(t)

Spec == Init /\ [][Next]_vars

\* direct callers of the cache, one call at a time
NextSeq ==
    \E t \in Callers :
        \/ BeginSeq(t)
        \/ Check(t)
        \/ LoadOk(t)
        \/ LoadFail(t)
        \/ Store(t)
        \/ Return(t)

SpecSeq == Init /\ [][NextSeq]_vars

\* one analysis: the main thread and the two detector tasks
NextRun ==
    \/ Analyze
    \/ RobertaCall
    \/ RobertaInfer
    \/ RobertaFinish
    \/ BinocularsCall
    \/ BinocularsLoss
    \/ BinocularsFinish
    \/ \E d \in Tasks :
        \/ Check(d)
        \/ LoadOk(d)
        \/ LoadFail(d)
        \/ Store(d)
        \/ Return(d)
        \/ TaskLoadFailed(d)
        \/ TaskFault(d)
        \/ Collect(d)
    \/ Decide
    \/ MainPrint

SpecRun == Init /\ [][NextRun]_vars

\* the steps of the main thread before and after detect_ai_content_advanced returns
MainSteps == Analyze \/ (\E d \in Tasks : Collect(d)) \/ MainPrint

\* the main thread leaves the loop of line 460 and returns: the step Decide, told by
\* the position of the main thread alone
LoopExit == apc = "wait" /\ LoopDone /\ apc' = "returned"

\* the steps of detector task d: its own and those of the cache call it is in
TaskSteps(d) ==
    \/ d = RobertaTask /\ (RobertaCall \/ RobertaInfer \/ RobertaFinish)
    \/ d = BinocularsTask /\ (BinocularsCall \/ BinocularsLoss \/ BinocularsFinish)
    \/ Check(d)
    \/ LoadOk(d)
    \/ LoadFail(d)
    \/ Store(d)
    \/ Return(d)
    \/ TaskLoadFailed(d)
    \/ TaskFault(d)

\* one analysis in which each thread keeps running: the main thread and the pool's two
\* workers are scheduled, and every model load and inference returns or raises
SpecRunFair ==
    /\ SpecRun
    /\ WF_vars(MainSteps)
    /\ WF_apc(LoopExit)
    /\ \A d \in Tasks : WF_vars(TaskSteps(d))

\* a process that calls preload_models (up to MaxPreloads times) and then analyses
\* one text
NextPreload ==
    \/ PreloadStart
    \/ PreloadCall
    \/ PreloadReturnTrue
    \/ PreloadReturnFalse
    \/ Check(PreloadThread)
    \/ LoadOk(PreloadThread)
    \/ LoadFail(PreloadThread)
    \/ Store(PreloadThread)
    \/ Return(PreloadThread)
    \/ NextRun

SpecPreload == Init /\ [][NextPreload]_vars

\* chunk_text applied to one text
NextChunk == ChunkText

SpecChunk == Init /\ [][NextChunk]_vars

\* the aggregation of one sequence of chunk scores by both detectors
NextStats == StatsScore \/ StatsAggregate

SpecStats == Init /\ [][NextStats]_vars

-----------------------------------------------------------------------------
(* Claims about the model cache *)

Finished(t) == call[t].pc \in {"done", "raised"}

\* C1: concurrent callers requesting the same uncached key cause exactly one load:
\* the load counter of a key never exceeds 1.
C1_AtMostOneLoadPerKey == \A k \in DOMAIN loads : loads[k] <= 1

\* C2: in a sequence of calls, a call made after a call for the same key has returned
\* performs no load and returns the identical handle; a call on a missing key loads,
\* stores the handle under the key and returns it.
C2_HitReturnsStoredHandle ==
    \A t \in Callers :
        call[t].pc = "done" =>
            /\ call[t].prevRet # NoHandle =>
                   /\ ~call[t].loaded
                   /\ call[t].ret = call[t].prevRet
            /\ call[t].key \notin DOMAIN call[t].before =>
                   /\ call[t].loaded
                   /\ call[t].ret = call[t].local
                   /\ call[t].ret # NoHandle
                   /\ call[t].key \in DOMAIN MODEL_CACHE
                   /\ MODEL_CACHE[call[t].key] = call[t].ret

C2_Witness ==
    \E t, u \in Callers :
        /\ call[t].pc = "done" /\ call[t].prevRet # NoHandle /\ ~call[t].loaded
        /\ call[u].pc = "done" /\ call[u].loaded /\ call[u].key = call[t].key

\* C3: when the load fails the call raises, the cache is exactly what it was when the
\* call began (the key still absent), and the next call for the key attempts the load
\* again.
C3_FailedLoadLeavesCache ==
    [][\A t \in Callers :
          /\ (call[t].pc = "load" /\ call'[t].pc = "raised") =>
                 /\ MODEL_CACHE' = call[t].before
                 /\ call[t].key \notin DOMAIN MODEL_CACHE'
          /\ (call[t].pc = "load" /\ call'[t].pc # "load") =>
                 call'[t].pc \in {"raised", "store"}
          /\ (~Finished(t) /\ Finished(t)' /\ call[t].prev = "raised") =>
                 call'[t].loaded]_vars

C3_Witness ==
    \E t \in Callers :
        /\ Finished(t)
        /\ call[t].prev = "raised"
        /\ call[t].loaded
        /\ call[t].key \notin DOMAIN call[t].before

\* C4: the set of cached keys only grows and a present key stays bound to the same
\* handle: no step removes an entry or rebinds a key.
C4_CacheMonotone ==
    [][\A k \in DOMAIN MODEL_CACHE :
          /\ k \in DOMAIN MODEL_CACHE'
          /\ MODEL_CACHE'[k] = MODEL_CACHE[k]]_vars

\* C5: for one model name, get_cached_model and get_cached_classifier use distinct
\* keys: the two requests end in two separate entries and return different handles.
C5_SeparateNamespaces ==
    \A t, u \in Callers :
        ( /\ call[t].fn = "get_cached_model"
          /\ call[u].fn = "get_cached_classifier"
          /\ call[t].name = call[u].name ) =>
            /\ call[t].key # call[u].key
            /\ call[u].key = ClassifierPrefix \o call[u].name
            /\ (call[t].pc = "done" /\ call[u].pc = "done") =>
                   /\ {call[t].key, call[u].key} \subseteq DOMAIN MODEL_CACHE
                   /\ MODEL_CACHE[call[t].key] # MODEL_CACHE[call[u].key]
                   /\ call[t].ret # call[u].ret

C5_Witness ==
    \E t, u \in Callers :
        /\ call[t].fn = "get_cached_model" /\ call[t].pc = "done"
        /\ call[u].fn = "get_cached_classifier" /\ call[u].pc = "done"
        /\ call[t].name = call[u].name
        /\ call[t].ret # NoHandle /\ call[u].ret # NoHandle

-----------------------------------------------------------------------------
(* Claims about the ensemble *)

\* what the two detector tasks returned
RobertaOutcome == task[RobertaTask].outcome
BinocularsOutcome == task[BinocularsTask].outcome

\* detect_ai_content_advanced has returned
Decided == apc = "returned" /\ Len(yielded) > 0

BothSucceeded == Truthy(RobertaOutcome) /\ Truthy(BinocularsOutcome)
BothFailed == ~Truthy(RobertaOutcome) /\ ~Truthy(BinocularsOutcome)

\* the parts of C6 other than the score
CombinedShape ==
    /\ advanced_result.confidence = 92
    /\ advanced_result.indicators = RobertaOutcome.indicators \o BinocularsOutcome.indicators
    /\ advanced_result.model = <<"combined", ":", "roberta", "+", "binoculars">>
    /\ advanced_result.individual_results.roberta = RobertaOutcome
    /\ advanced_result.individual_results.binoculars = BinocularsOutcome

\* C6 as stated: when both detectors return a result, ai_likelihood is exactly
\* 0.6 * classifier score + 0.4 * perplexity score, confidence is 0.92, the indicators
\* are the classifier's followed by the comparator's, the model is
\* 'combined:roberta+binoculars' and both sub-results are retained.
C6_ExactWeightedSum ==
    (Decided /\ BothSucceeded) =>
        /\ 10 * advanced_result.ai_likelihood =
               6 * RobertaOutcome.ai_likelihood + 4 * BinocularsOutcome.ai_likelihood
        /\ CombinedShape

\* C6 amended: ai_likelihood is 0.6 * classifier score + 0.4 * perplexity score rounded
\* to two decimals (within half a hundredth of the weighted sum; 80 and 50 give 68);
\* the rest as stated.
C6_RoundedWeightedSum ==
    (Decided /\ BothSucceeded) =>
        LET exact10 == 6 * RobertaOutcome.ai_likelihood + 4 * BinocularsOutcome.ai_likelihood
            got10 == 10 * advanced_result.ai_likelihood
        IN  /\ got10 - exact10 <= 5
            /\ exact10 - got10 <= 5
            /\ (RobertaOutcome.ai_likelihood = 8000 /\ BinocularsOutcome.ai_likelihood = 5000)
                   => advanced_result.ai_likelihood = 6800
            /\ CombinedShape

C6_Witness ==
    /\ Decided
    /\ BothSucceeded
    /\ (6 * RobertaOutcome.ai_likelihood + 4 * BinocularsOutcome.ai_likelihood) % 10 # 0
    /\ RobertaOutcome.confidence # 92
    /\ advanced_result.confidence = 92

\* C7: when exactly one detector returns a result and the other fails, the ensemble
\* returns the successful detector's result unchanged, field for field.
C7_SinglePassThrough ==
    /\ (Decided /\ Truthy(RobertaOutcome) /\ ~Truthy(BinocularsOutcome))
           => advanced_result = RobertaOutcome
    /\ (Decided /\ ~Truthy(RobertaOutcome) /\ Truthy(BinocularsOutcome))
           => advanced_result = BinocularsOutcome

C7_Witness ==
    /\ Decided
    /\ ~Truthy(RobertaOutcome)
    /\ Truthy(BinocularsOutcome)
    /\ advanced_result = BinocularsOutcome
    /\ BinocularsOutcome.confidence = 93

\* C8: when both detectors fail on a text that passed the length gate, the result of
\* analyze_ai_likelihood names the heuristic as its model with confidence 0.7, or has
\* confidence 0.3 (model 'fallback') if the heuristic itself faulted.
C8_BothFailHeuristic ==
    (Decided /\ BothFailed) =>
        /\ ~TooShort(text)
        /\ "model" \in DOMAIN final
        /\ IF HeuristicFaults(text)
             THEN final.confidence = 30 /\ final.model = <<"fallback">>
             ELSE final.confidence = 70 /\ final.model = <<"statistical_heuristics">>

C8_Witness ==
    /\ Decided
    /\ BothFailed
    /\ HeuristicFaults(text)
    /\ final.confidence = 30

\* C9: the ensemble returns only after both detector tasks have settled, in whichever
\* order they finish, and a failed task does not keep the other task's result from
\* being returned.
C9_DecideAfterBothSettled ==
    /\ advanced_result # None =>
           \A d \in Tasks : task[d].pc = "settled"
    /\ apc = "returned" /\ Len(yielded) > 0 => advanced_result # None
    /\ \A d \in Tasks :
           (advanced_result # None /\ Truthy(task[d].outcome)) =>
               \/ advanced_result = task[d].outcome
               \/ /\ "individual_results" \in DOMAIN advanced_result
                  /\ task[d].outcome \in {advanced_result.individual_results.roberta,
                                          advanced_result.individual_results.binoculars}

C9_Witness ==
    /\ Decided
    /\ yielded = <<RobertaTask, BinocularsTask>>
    /\ ~Truthy(RobertaOutcome)
    /\ advanced_result = BinocularsOutcome
    /\ Truthy(BinocularsOutcome)

\* C10: whichever task completes first, the classifier task's result goes to the
\* classifier slot and the perplexity task's result to the perplexity slot; the
\* combined result has the classifier's score and indicators first under both orders.
C10_SlotsByDetector ==
    /\ \A k \in 1..Len(yielded) :
           /\ yielded[k] = RobertaTask =>
                  roberta_result = RobertaOutcome
           /\ yielded[k] = BinocularsTask =>
                  binoculars_result = BinocularsOutcome
    /\ (RobertaTask \notin {yielded[k] : k \in 1..Len(yielded)}) => roberta_result = None
    /\ (BinocularsTask \notin {yielded[k] : k \in 1..Len(yielded)}) => binoculars_result = None
    /\ (Decided /\ BothSucceeded) =>
           /\ advanced_result.roberta_score = RobertaOutcome.ai_likelihood
           /\ advanced_result.binoculars_score = BinocularsOutcome.ai_likelihood
           /\ SubSeq(advanced_result.indicators, 1, Len(RobertaOutcome.indicators))
                  = RobertaOutcome.indicators

C10_Witness ==
    /\ Decided
    /\ BothSucceeded
    /\ yielded = <<BinocularsTask, RobertaTask>>
    /\ RobertaOutcome.ai_likelihood # BinocularsOutcome.ai_likelihood
    /\ advanced_result.roberta_score = RobertaOutcome.ai_likelihood

-----------------------------------------------------------------------------
(* Claims about the entry point *)

\* no load was performed and the cache is as empty as when the process started
NoLoadNoCache == MODEL_CACHE = <<>> /\ loads = <<>> /\ nextId = 1

\* C11: for a text whose stripped length is below 50 characters (the empty text
\* included) analyze_ai_likelihood returns ai_likelihood 50, confidence 0 and no
\* indicators, without calling the heuristic or a detector, and without a model load
\* or a change to the cache.
C11_ShortTextGate ==
    (apc = "returned" /\ text.chars < 50) =>
        /\ final.ai_likelihood = 5000
        /\ final.confidence = 0
        /\ final.indicators = <<>>
        /\ heuristic_result = None
        /\ \A d \in Tasks : task[d] = NoTask
        /\ \A t \in Threads : call[t] = NoCall
        /\ yielded = <<>>
        /\ advanced_result = None
        /\ NoLoadNoCache

C11_Witness ==
    /\ apc = "returned"
    /\ text.chars = 0
    /\ final.ai_likelihood = 5000
    /\ final.confidence = 0
    /\ JsonCount = 1

\* the chunks a detector task iterates over
ChunksOf(d) == IF d = RobertaTask THEN RobertaChunks ELSE BinocularsChunks

\* C12: detect_roberta and detect_binoculars never raise: a task always ends settled,
\* and one that ended on a failed load or before every chunk was scored (a fault on a
\* chunk, earlier chunks scored or not) returned None, never a partial result; a
\* result is returned only with every chunk scored.
C12_DetectorFaultIsNone ==
    \A d \in Tasks :
        /\ task[d].pc \in {"unsubmitted", "call", "call_a", "call_b", "loading",
                           "loss_a", "loss_b", "settled"}
        /\ task[d].pc = "settled" =>
               IF call[d].pc = "raised" \/ task[d].i <= Len(ChunksOf(d))
                 THEN task[d].outcome = None
                 ELSE /\ Truthy(task[d].outcome)
                      /\ Len(task[d].scores) = Len(ChunksOf(d))
                      /\ task[d].outcome.chunk_analysis.num_chunks = Len(ChunksOf(d))
                      /\ Len(task[d].outcome.chunk_analysis.chunks) = Len(ChunksOf(d))
        /\ (apc = "returned" /\ Len(yielded) > 0) => task[d].pc = "settled"

C12_Witness ==
    /\ task[RobertaTask].pc = "settled"
    /\ call[RobertaTask].pc = "done"
    /\ Len(task[RobertaTask].scores) = 1
    /\ Len(RobertaChunks) = 2
    /\ task[RobertaTask].outcome = None
    /\ task[BinocularsTask].pc = "settled"
    /\ call[BinocularsTask].pc = "raised"
    /\ task[BinocularsTask].outcome = None

\* the advanced attempt raised (the import of transformers failed) or resolved to a
\* result produced by the heuristic inside the ensemble
AdvancedFellBack ==
    /\ apc = "returned"
    /\ text.chars >= 50
    /\ AllowAdvanced(env)
    /\ \/ ~env.transformers
       \/ Decided /\ BothFailed

\* C13: when the advanced attempt raises, or resolves to a result produced by the
\* heuristic inside the ensemble (its normal result or its neutral error substitute),
\* analyze_ai_likelihood returns only the heuristic result: no heuristic_* field is
\* added and the diagnostic record does not mark the advanced path as successful.
C13_FallbackDiscarded ==
    AdvancedFellBack =>
        /\ DOMAIN final = (DOMAIN heuristic_result) \cup {"_debug"}
        /\ \A k \in DOMAIN heuristic_result : final[k] = heuristic_result[k]
        /\ {"heuristic_score", "heuristic_indicators", "heuristic_model"}
               \cap DOMAIN final = {}
        /\ "advanced_success" \notin DOMAIN final._debug

\* a result that has ai_likelihood within [0, 100] and confidence within [0, 1]
InRange(r) ==
    /\ {"ai_likelihood", "confidence"} \subseteq DOMAIN r
    /\ r.ai_likelihood >= 0
    /\ r.ai_likelihood <= 10000
    /\ r.confidence >= 0
    /\ r.confidence <= 100

\* C14: every result returned by the heuristic, by a detector, by the ensemble and by
\* analyze_ai_likelihood, on every path (length gate, combined, single detector, both
\* failed, the heuristic's error substitute), has ai_likelihood present and within
\* [0, 100] and confidence present and within [0, 1].
C14_ScoresInRange ==
    /\ Truthy(heuristic_result) => InRange(heuristic_result)
    /\ \A d \in Tasks : Truthy(task[d].outcome) => InRange(task[d].outcome)
    /\ Truthy(roberta_result) => InRange(roberta_result)
    /\ Truthy(binoculars_result) => InRange(binoculars_result)
    /\ Truthy(advanced_result) => InRange(advanced_result)
    /\ apc = "returned" => InRange(final)
    /\ \A k \in 1..Len(stdout) : stdout[k].kind = "json" => InRange(stdout[k].body)

C14_Witness ==
    /\ Decided
    /\ BothSucceeded
    /\ advanced_result.ai_likelihood = 8000
    /\ final.ai_likelihood = 8000
    /\ final.confidence = 92
    /\ final.heuristic_score = 8500

\* C15: for an invocation of the command line with a text, what is written to
\* standard output is exactly one JSON object and nothing else, on every path (length
\* gate, combined, single detector, both detectors failed, heuristic fault): nothing
\* but the result object is ever on standard output, and once it is printed it is
\* the whole of the output.
C15_StdoutOnlyJson ==
    /\ \A k \in 1..Len(stdout) : stdout[k].kind = "json"
    /\ JsonCount <= 1
    /\ JsonCount = 1 => stdout = << StdoutJson(final) >>

\* C16: detect_ai_content_simple always returns a result and never raises: without an
\* internal fault the result has confidence 0.7 and model 'statistical_heuristics';
\* with one (statistics.stdev on a single sentence length) it is the neutral
\* substitute: ai_likelihood 50, confidence 0.3 and a single explanatory indicator.
C16_HeuristicAlwaysReturns ==
    (apc # "none" /\ text.chars >= 50) =>
        /\ Truthy(heuristic_result)
        /\ IF Len(text.sentences) > 3 /\ Len(NonZero(text.sentences)) = 1
             THEN /\ heuristic_result.ai_likelihood = 5000
                  /\ heuristic_result.confidence = 30
                  /\ heuristic_result.indicators = << <<"Error during analysis">> >>
             ELSE /\ heuristic_result.confidence = 70
                  /\ heuristic_result.model = <<"statistical_heuristics">>
                  /\ heuristic_result.ai_likelihood \in {0, 8500}

C16_Witness ==
    /\ apc # "none"
    /\ Len(text.sentences) > 3
    /\ Len(NonZero(text.sentences)) = 1
    /\ heuristic_result.confidence = 30
    /\ Len(heuristic_result.indicators) = 1

\* a model-backed result (combined or of a single detector) is the primary result
ModelBackedPrimary == Decided /\ ~BothFailed

\* C17: for a text that passes the length gate the heuristic is computed whatever the
\* configuration and the detectors' outcomes; when a model-backed result (combined or
\* single detector) is the primary one, the payload's ai_likelihood, confidence,
\* indicators, model and note are the primary result's, heuristic_score and
\* heuristic_indicators are the heuristic's ai_likelihood and indicators for the same
\* text, and a _debug record is attached.
C17_PrimaryPlusHeuristic ==
    /\ (apc # "none" /\ text.chars >= 50) =>
           heuristic_result = detect_ai_content_simple(text)
    /\ ModelBackedPrimary =>
           /\ advanced_result.model \in
                  {RobertaName, BinocularsName,
                   <<"combined", ":", "roberta", "+", "binoculars">>}
           /\ final.ai_likelihood = advanced_result.ai_likelihood
           /\ final.confidence = advanced_result.confidence
           /\ final.indicators = advanced_result.indicators
           /\ final.model = advanced_result.model
           /\ final.note = advanced_result.note
           /\ final.heuristic_score = detect_ai_content_simple(text).ai_likelihood
           /\ final.heuristic_indicators = detect_ai_content_simple(text).indicators
           /\ "_debug" \in DOMAIN final
           /\ final._debug.allow_advanced

C17_Witness ==
    /\ ModelBackedPrimary
    /\ ~BothSucceeded
    /\ final.model = RobertaName
    /\ final.ai_likelihood # final.heuristic_score
    /\ final.heuristic_score = 8500
    /\ Len(final.heuristic_indicators) = 4

\* C18: when ALLOW_ADVANCED is set to a value other than '1', analyze_ai_likelihood
\* starts no detector task and performs no model load, returns the heuristic result as
\* its payload and records why_failed = 'ALLOW_ADVANCED=0' in _debug; when the variable
\* is unset the advanced path is attempted (the detector tasks are submitted once
\* transformers imports).
C18_DisabledByConfiguration ==
    /\ (apc # "none" /\ text.chars >= 50 /\ env.allow \notin {"unset", "1"}) =>
           /\ apc = "returned"
           /\ \A d \in Tasks : task[d] = NoTask /\ call[d] = NoCall
           /\ yielded = <<>>
           /\ advanced_result = None
           /\ NoLoadNoCache
           /\ DOMAIN final = (DOMAIN heuristic_result) \cup {"_debug"}
           /\ \A k \in DOMAIN heuristic_result : final[k] = heuristic_result[k]
           /\ final._debug.allow_advanced = FALSE
           /\ final._debug.why_failed = <<"ALLOW_ADVANCED=0">>
    /\ (apc # "none" /\ text.chars >= 50 /\ env.allow = "unset" /\ env.transformers) =>
           /\ \A d \in Tasks : task[d].pc # "unsubmitted"
           /\ apc = "returned" => Len(yielded) = 2
    /\ (apc = "returned" /\ text.chars >= 50 /\ env.allow = "unset") =>
           /\ final._debug.allow_advanced
           /\ "why_failed" \in DOMAIN final._debug =>
                  final._debug.why_failed # <<"ALLOW_ADVANCED=0">>

C18_Witness ==
    /\ apc = "returned"
    /\ env.allow = "true"
    /\ env.transformers
    /\ text.chars >= 50
    /\ final.model = <<"statistical_heuristics">>
    /\ final._debug.why_failed = <<"ALLOW_ADVANCED=0">>

-----------------------------------------------------------------------------
(* Claims about preload_models *)

\* the classifier and the two causal language models are cached
AllPreloaded == \A j \in 1..Len(PreloadCalls) : PreloadKey(j) \in DOMAIN MODEL_CACHE

\* preload_models has returned and no analysis has begun since
PreloadReturned == preload.pc = "returned" /\ apc = "none"

\* C19: preload_models never raises: whichever of the three loads succeed or fail it
\* returns True when all three keys end up cached and False otherwise; after a load
\* fails no later load is attempted (the failing call is the last one made, the calls
\* before it returned), and the handles cached before the failure stay cached.
C19_PreloadReportsOutcome ==
    /\ preload.pc \in {"idle", "running", "returned"}
    /\ (preload.pc = "running" /\ call[PreloadThread].pc = "raised") =>
           call[PreloadThread].key = PreloadKey(preload.step - 1)
    /\ PreloadReturned =>
           /\ preload.ret \in {"True", "False"}
           /\ preload.ret = "True" <=> AllPreloaded
           /\ \A k \in DOMAIN preload.cache0 :
                  k \in DOMAIN MODEL_CACHE /\ MODEL_CACHE[k] = preload.cache0[k]
           /\ preload.ret = "False" =>
                  /\ call[PreloadThread].pc = "raised"
                  /\ call[PreloadThread].key = PreloadKey(preload.step - 1)
                  /\ PreloadKey(preload.step - 1) \notin DOMAIN MODEL_CACHE
                  /\ \A j \in 1..(preload.step - 2) :
                         PreloadKey(j) \in DOMAIN MODEL_CACHE
                  /\ \A j \in preload.step..Len(PreloadCalls) :
                         /\ PreloadKey(j) \in DOMAIN MODEL_CACHE
                                <=> PreloadKey(j) \in DOMAIN preload.cache0
                         /\ PreloadKey(j) \in DOMAIN loads
                                <=> PreloadKey(j) \in DOMAIN preload.loads0

\* the second load failed on the first call of preload_models: the classifier stays
\* cached and the third load was not attempted
C19_Witness ==
    /\ PreloadReturned
    /\ preload.runs = 1
    /\ preload.ret = "False"
    /\ preload.step = 3
    /\ PreloadKey(1) \in DOMAIN MODEL_CACHE
    /\ PreloadKey(2) \notin DOMAIN MODEL_CACHE
    /\ PreloadKey(3) \notin DOMAIN MODEL_CACHE

\* the three keys preload_models is to leave cached
PreloadedKeys == {ClassifierPrefix \o RobertaName, Gpt2, GptNeo}

\* C20: preload_models is idempotent: once a call has returned True, a further call
\* performs no load, leaves the cache as it was (the same three keys bound to the same
\* handles) and returns True; and an analysis run after a successful preload (the
\* ensemble included) performs no load.
C20_PreloadIdempotent ==
    preload.warm =>
        /\ DOMAIN MODEL_CACHE = PreloadedKeys
        /\ MODEL_CACHE = preload.cache1
        /\ loads = preload.loads1
        /\ \A k \in PreloadedKeys : loads[k] = 1
        /\ preload.pc = "returned" => preload.ret = "True"
        /\ preload.pc = "running" => ~call[PreloadThread].loaded
        /\ call[PreloadThread].pc \notin {"load", "store", "raised"}
        /\ \A d \in Tasks :
               /\ ~call[d].loaded
               /\ call[d].pc \notin {"load", "store", "raised"}
               /\ call[d].pc = "done" => call[d].ret = preload.cache1[call[d].key]

C20_Witness ==
    /\ preload.warm
    /\ preload.runs = 2
    /\ preload.pc = "returned"
    /\ preload.ret = "True"
    /\ DOMAIN preload.cache0 = PreloadedKeys
    /\ preload.cache0 = MODEL_CACHE
    /\ Decided
    /\ BothSucceeded
    /\ loads = preload.loads1

-----------------------------------------------------------------------------
(* Claims about chunk_text *)

\* chunk_text has returned
Chunked == chunking.pc = "returned"

\* C21: for a text whose word count is at most chunk_size, chunk_text returns exactly
\* one chunk, and that chunk is the input text itself, unmodified.
C21_ShortTextOneChunk ==
    (Chunked /\ chunking.nwords <= chunking.chunk_size) =>
        /\ Len(chunking.chunks) = 1
        /\ chunking.chunks[1].whole
        /\ chunking.chunks[1].start = 0
        /\ chunking.chunks[1].len = chunking.nwords

C21_Witness ==
    /\ Chunked
    /\ chunking.nwords = chunking.chunk_size
    /\ chunking.chunk_size = 700
    /\ Len(chunking.chunks) = 1
    /\ chunking.chunks[1].whole

\* the stride of the loop of line 227
StrideOf(c) == c.chunk_size - c.overlap

\* the indices j for which range(0, len(words), stride) yields j * stride
WindowIndices(c) == {j \in 0..c.nwords : j * StrideOf(c) < c.nwords}

\* len(words[j * stride : j * stride + chunk_size])
WindowLen(c, j) ==
    IF j * StrideOf(c) + c.chunk_size <= c.nwords
      THEN c.chunk_size
      ELSE c.nwords - j * StrideOf(c)

\* the windows that are kept: those of at least 50 words
KeptIndices(c) == {j \in WindowIndices(c) : WindowLen(c, j) >= 50}

\* C22: for a text of more than chunk_size words, chunk_text emits in source order the
\* windows words[j * stride : j * stride + chunk_size], j = 0, 1, ..., with
\* stride = chunk_size - overlap, keeping a window exactly when it has at least 50
\* words; every emitted chunk has between 50 and chunk_size words and only trailing
\* windows are discarded.
C22_SlidingWindows ==
    (Chunked /\ chunking.nwords > chunking.chunk_size) =>
        /\ Len(chunking.chunks) = Cardinality(KeptIndices(chunking))
        /\ \A k \in 1..Len(chunking.chunks) :
               /\ k - 1 \in KeptIndices(chunking)
               /\ chunking.chunks[k].start = (k - 1) * StrideOf(chunking)
               /\ chunking.chunks[k].len = WindowLen(chunking, k - 1)
               /\ chunking.chunks[k].len >= 50
               /\ chunking.chunks[k].len <= chunking.chunk_size
               /\ ~chunking.chunks[k].whole
        /\ \A j \in WindowIndices(chunking) \ KeptIndices(chunking) :
               \A j2 \in WindowIndices(chunking) : j2 > j => j2 \notin KeptIndices(chunking)

\* a third window of exactly 50 words is kept, for the comparator's parameters
C22_Witness ==
    /\ Chunked
    /\ chunking.chunk_size = 700
    /\ chunking.nwords = 1150
    /\ Len(chunking.chunks) = 3
    /\ chunking.chunks[3].start = 1100
    /\ chunking.chunks[3].len = 50

\* the window parameters of detect_roberta (line 252) and detect_binoculars (line 352)
DetectorConfigs ==
    { [chunk_size |-> 400, overlap |-> 100], [chunk_size |-> 700, overlap |-> 150] }

\* the parameters of the call are those of one of the detectors
Configured == [chunk_size |-> chunking.chunk_size, overlap |-> chunking.overlap] \in DetectorConfigs

\* C23: for each detector's window parameters (400/100 and 700/150) a text of exactly
\* chunk_size + 1 words gives at least 2 chunks, and the second chunk starts at word
\* chunk_size - overlap, so that it shares exactly `overlap` words with the first.
C23_OverlapHonored ==
    (Chunked /\ Configured /\ chunking.nwords = chunking.chunk_size + 1) =>
        /\ Len(chunking.chunks) >= 2
        /\ chunking.chunks[1].start = 0
        /\ chunking.chunks[1].len = chunking.chunk_size
        /\ chunking.chunks[2].start = chunking.chunk_size - chunking.overlap
        /\ chunking.chunks[1].start + chunking.chunks[1].len - chunking.chunks[2].start
               = chunking.overlap
        /\ chunking.chunks[2].start + chunking.chunks[2].len = chunking.nwords

C23_Witness ==
    /\ Chunked
    /\ chunking.chunk_size = 400
    /\ chunking.nwords = 401
    /\ Len(chunking.chunks) = 2
    /\ chunking.chunks[2].start = 300
    /\ chunking.chunks[2].len = 101

\* word w of the text is inside the k-th emitted chunk
Covers(k, w) ==
    /\ chunking.chunks[k].start <= w
    /\ w < chunking.chunks[k].start + chunking.chunks[k].len

\* C30: for the detectors' window parameters (400/100 and 700/150) and any text, every
\* word of the text is contained in at least one emitted chunk: a trailing window
\* that is discarded for having fewer than 50 words lies entirely inside the last
\* emitted chunk.
C30_EveryWordCovered ==
    (Chunked /\ Configured) =>
        /\ \A w \in 0..(chunking.nwords - 1) :
               \E k \in 1..Len(chunking.chunks) : Covers(k, w)
        /\ chunking.nwords > chunking.chunk_size =>
               \A j \in WindowIndices(chunking) \ KeptIndices(chunking) :
                   /\ Len(chunking.chunks) >= 1
                   /\ Covers(Len(chunking.chunks), j * StrideOf(chunking))
                   /\ Covers(Len(chunking.chunks), chunking.nwords - 1)

\* a trailing window of 49 words was discarded
C30_Witness ==
    /\ Chunked
    /\ chunking.chunk_size = 400
    /\ chunking.nwords = 649
    /\ Len(chunking.chunks) = 2
    /\ 2 \in WindowIndices(chunking) \ KeptIndices(chunking)
    /\ Covers(2, 648)

-----------------------------------------------------------------------------
(* Claims about the chunk statistics *)

\* n^2 times the population variance of the aggregated scores around their mean:
\* n^2 * (sum(s^2) / n - (sum(s) / n)^2)
PopVarianceN2 ==
    LET n == Len(stats.scores)
        total == SumSeq(stats.scores)
    IN  (n * SumSq(stats.scores)) - (total * total)

\* the statistics ca are those of the aggregated scores: min <= avg <= max, avg the
\* arithmetic mean and std_dev the population standard deviation around it, both to
\* the nearest hundredth, std_dev >= 0
StatsOf(ca) ==
    LET n == Len(stats.scores)
        total == SumSeq(stats.scores)
    IN  /\ ca.min_score <= ca.avg_score
        /\ ca.avg_score <= ca.max_score
        /\ ca.std_dev >= 0
        /\ \A k \in 1..n : ca.min_score <= stats.scores[k] /\ stats.scores[k] <= ca.max_score
        /\ \E k \in 1..n : ca.min_score = stats.scores[k]
        /\ \E k \in 1..n : ca.max_score = stats.scores[k]
        /\ 2 * (n * ca.avg_score - total) <= n
        /\ 2 * (total - n * ca.avg_score) <= n
        /\ ((2 * ca.std_dev - 1) * n) * ((2 * ca.std_dev - 1) * n) <= 4 * PopVarianceN2
               \/ ca.std_dev = 0
        /\ 4 * PopVarianceN2 <= ((2 * ca.std_dev + 1) * n) * ((2 * ca.std_dev + 1) * n)
        /\ (\A k \in 1..n : stats.scores[k] = stats.scores[1]) => ca.std_dev = 0

\* C24: for every non-empty sequence of chunk scores aggregated by detect_roberta or
\* detect_binoculars the reported statistics satisfy min_score <= avg_score <=
\* max_score and std_dev >= 0, with avg the arithmetic mean and std_dev the population
\* standard deviation around that mean.
C24_StatisticsOrdered ==
    stats.pc = "done" =>
        /\ StatsOf(stats.roberta.chunk_analysis)
        /\ StatsOf(stats.binoculars.chunk_analysis)
        /\ stats.roberta.ai_likelihood = stats.roberta.chunk_analysis.avg_score
        /\ stats.binoculars.ai_likelihood = stats.binoculars.chunk_analysis.avg_score

C24_Witness ==
    /\ stats.pc = "done"
    /\ stats.scores = <<0, 10000, 1998>>
    /\ stats.roberta.chunk_analysis.min_score = 0
    /\ stats.roberta.chunk_analysis.avg_score = 3999
    /\ stats.roberta.chunk_analysis.max_score = 10000
    /\ stats.binoculars.chunk_analysis.std_dev > 0

-----------------------------------------------------------------------------
(* Claims about the payload *)

\* which of roberta_score, binoculars_score and _debug a payload has
Presence(p) ==
    <<"roberta_score" \in DOMAIN p, "binoculars_score" \in DOMAIN p, "_debug" \in DOMAIN p>>

\* the tier that answered the analysis
Tier ==
    IF BothSucceeded THEN "combined"
    ELSE IF BothFailed THEN "heuristic"
    ELSE "single"

\* a result of each detector for the analysed text
SampleRoberta == detect_roberta(RobertaChunks, [k \in 1..Len(RobertaChunks) |-> 5000])
SampleBinoculars ==
    detect_binoculars(BinocularsChunks, [k \in 1..Len(BinocularsChunks) |-> 8000])

\* the payload analyze_ai_likelihood builds for the analysed text when tier t answers
PayloadOfTier(t) ==
    CASE t = "combined" ->
           AfterAdvanced(detect_ai_content_advanced(SampleRoberta, SampleBinoculars, text),
                         heuristic_result)
      [] t = "single" ->
           AfterAdvanced(detect_ai_content_advanced(SampleRoberta, None, text),
                         heuristic_result)
      [] OTHER ->
           AfterAdvanced(detect_ai_content_advanced(None, None, text), heuristic_result)

\* C25 as stated: the presence or absence of roberta_score, binoculars_score and
\* _debug in the final payload signals which tier answered: the payload of an analysis
\* never has the presence pattern that a payload of another tier (combined, single
\* detector, heuristic fallback) has.
C25_PresenceSignalsTier ==
    Decided =>
        \A t \in {"combined", "single", "heuristic"} \ {Tier} :
            Presence(final) # Presence(PayloadOfTier(t))

\* C25 amended: roberta_score and binoculars_score are present together, and exactly
\* in a payload of the combined tier; _debug is in every payload of a text that passed
\* the length gate and in none of the gate; the payloads of the single-detector tier
\* and of the heuristic tier have the same presence pattern (only _debug).
C25_ScoresSignalCombined ==
    apc = "returned" =>
        IF text.chars < 50
          THEN Presence(final) = <<FALSE, FALSE, FALSE>>
          ELSE /\ "_debug" \in DOMAIN final
               /\ "roberta_score" \in DOMAIN final <=> "binoculars_score" \in DOMAIN final
               /\ "roberta_score" \in DOMAIN final <=> (Decided /\ BothSucceeded)
               /\ (Decided /\ BothSucceeded) =>
                      /\ final.roberta_score = RobertaOutcome.ai_likelihood
                      /\ final.binoculars_score = BinocularsOutcome.ai_likelihood
               /\ (Decided /\ ~BothSucceeded) =>
                      /\ Presence(final) = <<FALSE, FALSE, TRUE>>
                      /\ Presence(final) = Presence(PayloadOfTier("single"))
                      /\ Presence(final) = Presence(PayloadOfTier("heuristic"))

C25_Witness ==
    /\ Decided
    /\ Tier = "single"
    /\ Presence(final) = <<FALSE, FALSE, TRUE>>
    /\ Presence(PayloadOfTier("heuristic")) = <<FALSE, FALSE, TRUE>>
    /\ Presence(PayloadOfTier("combined")) = <<TRUE, TRUE, TRUE>>

\* the confidence tier of the aggregated scores: 1 for std < 10, 2 for 10 <= std < 20,
\* 3 for std >= 20, the standard deviation being sqrt(PopVarianceN2) / n
TierOfStd ==
    LET n == Len(stats.scores)
    IN  IF PopVarianceN2 < (1000 * n) * (1000 * n) THEN 1
        ELSE IF PopVarianceN2 < (2000 * n) * (2000 * n) THEN 2
        ELSE 3

\* C26: each detector's confidence is determined by the population standard deviation
\* of its chunk scores alone, through three tiers with strict upper bounds 10 and 20:
\* the classifier returns 0.92 / 0.85 / 0.78 and the comparator 0.93 / 0.87 / 0.80 for
\* std < 10, 10 <= std < 20 and std >= 20; a single chunk always gets the top tier.
C26_ConfidenceTiers ==
    stats.pc = "done" =>
        /\ stats.roberta.confidence =
               CASE TierOfStd = 1 -> 92 [] TierOfStd = 2 -> 85 [] OTHER -> 78
        /\ stats.binoculars.confidence =
               CASE TierOfStd = 1 -> 93 [] TierOfStd = 2 -> 87 [] OTHER -> 80
        /\ Len(stats.scores) = 1 =>
               stats.roberta.confidence = 92 /\ stats.binoculars.confidence = 93
        /\ stats.roberta.chunk_analysis.std_dev < 1000 => stats.roberta.confidence = 92
        /\ stats.roberta.chunk_analysis.std_dev > 2000 => stats.roberta.confidence = 78

\* a standard deviation of exactly 10 is in the middle tier
C26_Witness ==
    /\ stats.pc = "done"
    /\ stats.scores = <<0, 2000>>
    /\ stats.roberta.chunk_analysis.std_dev = 1000
    /\ stats.roberta.confidence = 85
    /\ stats.binoculars.confidence = 87

-----------------------------------------------------------------------------
(* Claims about termination *)

\* detector task d has been submitted and has not settled: it is in, or between, its
\* model calls
Running(d) == task[d].pc \notin {"unsubmitted", "settled"}

\* C27: there is no timeout or cancellation: provided every model load and inference
\* eventually returns or raises, analyze_ai_likelihood eventually returns, and returns
\* one result that is not replaced; while a detector task has not settled, the
\* ensemble returns nothing, even if the other task has already produced a result.
C27_ReturnsOnceBothSettle ==
    /\ <>(apc = "returned")
    /\ [](apc = "returned" => final # None)
    /\ [][apc = "returned" => (apc' = "returned" /\ final' = final)]_vars
    /\ [](\A d \in Tasks :
              Running(d) => (apc = "wait" /\ advanced_result = None /\ final = None))
    /\ <>[](JsonCount = 1)

\* the comparator has produced its result while the classifier is still loading its
\* model, and the ensemble has not returned
C27_Witness ==
    /\ task[BinocularsTask].pc = "settled"
    /\ Truthy(task[BinocularsTask].outcome)
    /\ yielded = <<BinocularsTask>>
    /\ task[RobertaTask].pc = "loading"
    /\ call[RobertaTask].pc = "load"
    /\ apc = "wait"
    /\ advanced_result = None

-----------------------------------------------------------------------------
(* Claims about the cache during an analysis *)

\* the cache keys detector task d asks for: line 249 through get_cached_classifier,
\* lines 332-333 through compute_loss and get_cached_model
TaskKeys(d) ==
    IF d = RobertaTask
      THEN {CacheKey("get_cached_classifier", RobertaName)}
      ELSE {CacheKey("get_cached_model", Gpt2), CacheKey("get_cached_model", GptNeo)}

\* the keys of one ensemble run
EnsembleKeys == UNION {TaskKeys(d) : d \in Tasks}

\* C28: within one ensemble run the two tasks request disjoint keys: the classifier
\* task only the prefixed classifier key, the perplexity task only gpt2 and gpt-neo.
\* So, whatever the cache holds when the analysis starts, no key is loaded twice under
\* any interleaving (a load is attempted only for an absent key, a task whose load
\* failed calls no more), and when both tasks succeed the cache holds exactly the
\* three keys.
C28_DisjointKeysOneLoad ==
    /\ TaskKeys(RobertaTask) \cap TaskKeys(BinocularsTask) = {}
    /\ [](\A d \in Tasks : call[d].pc # "idle" => call[d].key \in TaskKeys(d))
    /\ [](\A k \in DOMAIN loads : loads[k] <= 1)
    /\ [][\A d \in Tasks :
            (call[d].pc # "load" /\ call'[d].pc = "load")
                => call'[d].key \notin DOMAIN MODEL_CACHE]_vars
    /\ [][\A d \in Tasks : call[d].pc = "raised" => call'[d] = call[d]]_vars
    /\ []((Decided /\ BothSucceeded) => DOMAIN MODEL_CACHE = EnsembleKeys)

\* preload_models failed after caching the classifier; the analysis then found that
\* key present, loaded the two others and both detectors succeeded
C28_Witness ==
    /\ preload.ret = "False"
    /\ DOMAIN preload.cache0 = {}
    /\ Decided
    /\ BothSucceeded
    /\ DOMAIN MODEL_CACHE = EnsembleKeys
    /\ \A k \in EnsembleKeys : loads[k] = 1
    /\ ~call[RobertaTask].loaded
    /\ call[BinocularsTask].key = CacheKey("get_cached_model", GptNeo)

\* C29: for any sequence of get_cached_model / get_cached_classifier calls with
\* arbitrary names, the handle get_cached_model returns was produced by the causal-LM
\* loader and the handle get_cached_classifier returns by the sequence-classification
\* loader, also when the name passed to get_cached_model begins with "classifier:".
C29_HandleFromOwnLoader ==
    \A t \in Callers :
        call[t].pc = "done" => call[t].ret.loader = LoaderOf(call[t].fn)

====
